---- MODULE Spec2Model ----
(***************************************************************************)
(* Model of scripts/internal/winmake.py: the "make"-style command          *)
(* dispatcher (parse_args / get_python / main and the task functions with  *)
(* the external processes they spawn) and the filesystem cleanup helpers   *)
(* (rm, safe_remove, safe_rmtree, recursive_rm, clean).                    *)
(*                                                                         *)
(* Strings the code inspects character by character (interpreter paths and *)
(* version shorthands) are tuples of one-character strings.  Command names *)
(* and file names are tuples of tokens, cut so that every character the    *)
(* code looks at ('-', '_', '*') is a token of its own.                    *)
(***************************************************************************)
EXTENDS Integers, Sequences, FiniteSets, TLC

\* ------------------------------------------------------------------ bounds
\* Children return an exit code in 0..MaxCode.
MaxCode == 2
\* Number of installed psutil copies that "pip uninstall" can remove.
MaxCopies == 1
\* Longest --python argument enumerated by InitPy.
MaxLen == 4
\* Number of filesystem entries whose removal is refused (PermissionError).
MaxDenied == 1
\* Number of entries another process deletes while the cleanup runs.
MaxExternal == 1

VARIABLES
    \* --- dispatcher -----------------------------------------------------
    argv_command,   \* the positional subcommand on the command line
    argv_arg,       \* the optional free-form argument ("" when absent)
    argv_python,    \* the value of -p/--python (None when absent)
    env_PYTHON,     \* PYTHON in the calling environment (None when unset)
    isfile,         \* the interpreter paths that exist as files
    PYTHON,         \* the module global PYTHON
    os_environ,     \* os.environ["PYTHON"] (None when the key is missing)
    c_environ,      \* PYTHON in the process environment block (os.putenv)
    pc,             \* "start", "parsed", "resolved", "run", "exited"
    prog,           \* the steps of the dispatched call
    ip,             \* index of the next step of prog
    running,        \* child processes spawned and not yet waited for
    spawned,        \* every child spawned so far (what it ran and saw)
    failcode,       \* exit code of the first failing child, 0 if none
    exitcode,       \* the dispatcher's own exit status, -1 while it runs
    reported,       \* what was written to stderr on exit
    invoked,        \* the task functions main called
    cwd,            \* the working directory
    sys_modules,    \* TRUE when psutil is cached in sys.modules
    copies,         \* installed psutil copies visible to the import
    effects,        \* in-process steps of the tasks that have run
    \* --- cleanup --------------------------------------------------------
    WINDOWS,        \* os.name == "nt"
    call,           \* the cleanup call under analysis
    fs,             \* the directory tree below '.'
    fs0,            \* the tree when the cleanup started
    denied,         \* entries whose unlink/rmdir raises PermissionError
    phase,          \* "idle", "start", "walk", "done", "crashed"
    todo,           \* directories os.walk has still to visit
    pending,        \* removals of the current directory not yet made
    tail,           \* clean(): the fixed safe_rmtree calls still to make
    events,         \* the removals attempted so far, with their outcome
    listed,         \* every removal the cleanup selected (path and helper)
    external        \* entries deleted by another process so far

dvars ==
    <<argv_command, argv_arg, argv_python, env_PYTHON, isfile, PYTHON,
      os_environ, c_environ, pc, prog, ip, running, spawned, failcode,
      exitcode, reported, invoked, cwd, sys_modules, copies,
      effects>>

cvars ==
    <<WINDOWS, call, fs, fs0, denied, phase, todo, pending, tail, events,
      listed, external>>

vars ==
    <<dvars, cvars>>

\* ---------------------------------------------------------------- helpers
Max(a, b) ==
    IF a > b THEN a ELSE b

Range(s) ==
    {s[i] : i \in 1..Len(s)}

\* All tuples over S of length at most n.
RECURSIVE SeqsUpTo(_, _)
SeqsUpTo(S, n) ==
    IF n = 0 THEN {<<>>}
    ELSE LET shorter == SeqsUpTo(S, n - 1)
         IN  shorter \cup {Append(s, x) : s \in shorter, x \in S}

\* str.replace(old, ''): drop every occurrence of the character old.
RECURSIVE str_remove(_, _)
str_remove(s, old) ==
    IF s = <<>> THEN <<>>
    ELSE IF Head(s) = old THEN str_remove(Tail(s), old)
    ELSE <<Head(s)>> \o str_remove(Tail(s), old)

\* str.replace(old, new) on a tuple of tokens/characters.
str_replace(s, old, new) ==
    [i \in 1..Len(s) |-> IF s[i] = old THEN new ELSE s[i]]

\* Python's "sub in s" for strings.
str_contains(s, sub) ==
    \E i \in 0..(Len(s) - Len(sub)) :
        \A j \in 1..Len(sub) : s[i + j] = sub[j]

\* Python's None.
None ==
    <<"<None>">>

\* Truthiness of an optional string: None and "" are falsy.
falsy(s) ==
    s = None \/ s = <<>>

\* ------------------------------------------------------- interpreter paths
\* sys.executable of the interpreter running the dispatcher.
sys_executable ==
    <<"C", ":", "\\", "r", "\\", "p", "y">>

\* The version table of get_python.
vers ==
    << <<"3", "1", "0", "-", "6", "4">>,
       <<"3", "1", "1", "-", "6", "4">>,
       <<"3", "1", "2", "-", "6", "4">> >>

\* rf"C:\\python{v}\python.exe": in a raw string both backslashes stay.
pypath(v) ==
    <<"C", ":", "\\", "\\", "p", "y", "t", "h", "o", "n">> \o v \o
    <<"\\", "p", "y", "t", "h", "o", "n", ".", "e", "x", "e">>

KnownPaths ==
    {pypath(vers[i]) : i \in 1..Len(vers)}

\* os.path.isabs on Windows: a drive and a root, or a UNC prefix.
isabs(path) ==
    \/ /\ Len(path) >= 3
       /\ path[2] = ":"
       /\ path[3] \in {"\\", "/"}
    \/ /\ Len(path) >= 2
       /\ path[1] \in {"\\", "/"}
       /\ path[2] \in {"\\", "/"}

\* The for loop of get_python from index i on: the first table entry that
\* contains the shorthand and exists; None when the loop runs out.
RECURSIVE get_python_loop(_, _, _)
get_python_loop(path, files, i) ==
    IF i > Len(vers) THEN None
    ELSE IF str_contains(pypath(vers[i]), path) /\ pypath(vers[i]) \in files
         THEN pypath(vers[i])
    ELSE get_python_loop(path, files, i + 1)

\* Faulty variant: the table entry is returned without os.path.isfile.
get_python_noisfile(path, files) ==
    IF falsy(path) THEN sys_executable
    ELSE IF isabs(path) THEN path
    ELSE get_python_loop(str_remove(path, "."), KnownPaths, 1)

get_python(path, files) ==
    IF falsy(path) THEN sys_executable
    ELSE IF isabs(path) THEN path
    ELSE get_python_loop(str_remove(path, "."), files, 1)

\* ------------------------------------------------------------ command names
\* The subcommands registered by parse_args, in source order.
ParserChoices ==
    { <<"bench", "-", "oneshot">>,
      <<"bench", "-", "oneshot", "_", "2">>,
      <<"build">>,
      <<"clean">>,
      <<"coverage">>,
      <<"generate", "-", "manifest">>,
      <<"help">>,
      <<"install">>,
      <<"install", "-", "git", "-", "hooks">>,
      <<"install", "-", "pip">>,
      <<"install", "-", "pydeps", "-", "dev">>,
      <<"install", "-", "pydeps", "-", "test">>,
      <<"print", "-", "access", "-", "denied">>,
      <<"print", "-", "api", "-", "speed">>,
      <<"print", "-", "sysinfo">>,
      <<"test", "-", "parallel">>,
      <<"test">>,
      <<"test", "-", "by", "-", "name">>,
      <<"test", "-", "by", "-", "regex">>,
      <<"test", "-", "connections">>,
      <<"test", "-", "contracts">>,
      <<"test", "-", "last", "-", "failed">>,
      <<"test", "-", "memleaks">>,
      <<"test", "-", "misc">>,
      <<"test", "-", "scripts">>,
      <<"test", "-", "platform">>,
      <<"test", "-", "process">>,
      <<"test", "-", "process", "-", "all">>,
      <<"test", "-", "system">>,
      <<"test", "-", "sudo">>,
      <<"test", "-", "unicode">>,
      <<"test", "-", "testutils">>,
      <<"uninstall">>,
      <<"upload", "-", "wheels">>,
      <<"wheel">> }

\* The subparsers that declare the optional positional 'arg'.
ArgCommands ==
    { <<"test">>,
      <<"test", "-", "by", "-", "name">>,
      <<"test", "-", "by", "-", "regex">> }

\* ------------------------------------------------------------------- steps
\* One step of a task: an external process or an in-process effect.  'jump'
\* is where control goes once the step succeeded; 'try' names the enclosing
\* try/finally block, if any.
Sh(what) ==
    [op |-> "sh", what |-> what, jump |-> 1, try |-> "none"]

Eff(what) ==
    [op |-> "effect", what |-> what, jump |-> 1, try |-> "none"]

\* ------------------------------------------------------------------- tasks
build ==
    << Sh("-c import setuptools"),
       [op |-> "popen", what |-> "setup.py build_ext -i", jump |-> 1,
        try |-> "build"],
       Sh("-c import psutil"),
       Eff("build + import successful") >>

wheel ==
    build \o <<Sh("setup.py bdist_wheel")>>

upload_wheels ==
    build \o <<Sh("-m twine upload dist/*.whl")>>

install_pip ==
    <<Sh("install_pip.py")>>

install ==
    build \o <<Sh("setup.py develop --user")>>

clean ==
    <<Eff("clean")>>

\* The 'while True' loop: the import either breaks out of the loop (two
\* steps ahead) or falls to the pip call, which jumps back to the import.
uninstall ==
    clean \o install_pip \o
    << Eff("chdir C:\\"),
       [op |-> "import", what |-> "import psutil", jump |-> 1,
        try |-> "uninstall"],
       [op |-> "sh", what |-> "-m pip uninstall -y psutil", jump |-> -1,
        try |-> "uninstall"],
       Eff("chdir here"),
       Eff("site-packages cleanup") >>

install_git_hooks ==
    <<Eff("install_git_hooks")>>

install_pydeps_test ==
    install_pip \o install_git_hooks \o
    <<Sh("-m pip install --user -U -e .[test]")>>

install_pydeps_dev ==
    install_pip \o install_git_hooks \o
    <<Sh("-m pip install --user -U -e .[dev]")>>

test(args) ==
    build \o <<Sh("-m pytest --ignore=psutil/tests/test_memleaks.py" \o args)>>

test_by_name(arg) ==
    build \o <<Sh("-m pytest " \o arg)>>

test_by_regex(arg) ==
    build \o <<Sh("-m pytest -k " \o arg)>>

test_parallel ==
    test(" -n auto --dist loadgroup")

coverage ==
    build \o
    << Sh("-m coverage run -m pytest"),
       Sh("-m coverage report"),
       Sh("-m coverage html"),
       Sh("-m webbrowser -t htmlcov/index.html") >>

test_process ==
    build \o <<Sh("-m pytest -k test_process.py")>>

test_process_all ==
    build \o <<Sh("-m pytest -k test_process_all.py")>>

test_system ==
    build \o <<Sh("-m pytest -k test_system.py")>>

test_platform ==
    build \o <<Sh("-m pytest -k test_windows.py")>>

test_misc ==
    build \o <<Sh("-m pytest -k test_misc.py")>>

test_scripts ==
    build \o <<Sh("-m pytest -k test_scripts.py")>>

test_unicode ==
    build \o <<Sh("-m pytest -k test_unicode.py")>>

test_connections ==
    build \o <<Sh("-m pytest -k test_connections.py")>>

test_contracts ==
    build \o <<Sh("-m pytest -k test_contracts.py")>>

test_testutils ==
    build \o <<Sh("-m pytest -k test_testutils.py")>>

test_sudo ==
    build \o <<Sh("-m pytest -k test_sudo.py")>>

test_last_failed ==
    build \o test(" --last-failed")

test_memleaks ==
    build \o <<Sh("-m pytest -k test_memleaks.py")>>

bench_oneshot ==
    <<Sh("scripts\\internal\\bench_oneshot.py")>>

bench_oneshot_2 ==
    <<Sh("scripts\\internal\\bench_oneshot_2.py")>>

print_access_denied ==
    build \o <<Sh("scripts\\internal\\print_access_denied.py")>>

print_api_speed ==
    build \o <<Sh("scripts\\internal\\print_api_speed.py")>>

print_sysinfo ==
    build \o <<Eff("print_sysinfo")>>

generate_manifest ==
    << [op |-> "check_output", what |-> "scripts\\internal\\generate_manifest.py",
        jump |-> 1, try |-> "none"],
       Eff("write MANIFEST.in") >>

\* The zero-argument task functions defined at module level, by name.
TaskTable ==
    [name \in
        { <<"build">>, <<"wheel">>, <<"upload", "_", "wheels">>,
          <<"install", "_", "pip">>, <<"install">>, <<"uninstall">>,
          <<"clean">>, <<"install", "_", "pydeps", "_", "test">>,
          <<"install", "_", "pydeps", "_", "dev">>, <<"test">>,
          <<"test", "_", "parallel">>, <<"coverage">>,
          <<"test", "_", "process">>, <<"test", "_", "process", "_", "all">>,
          <<"test", "_", "system">>, <<"test", "_", "platform">>,
          <<"test", "_", "misc">>, <<"test", "_", "scripts">>,
          <<"test", "_", "unicode">>, <<"test", "_", "connections">>,
          <<"test", "_", "contracts">>, <<"test", "_", "testutils">>,
          <<"test", "_", "sudo">>, <<"test", "_", "last", "_", "failed">>,
          <<"test", "_", "memleaks">>, <<"install", "_", "git", "_", "hooks">>,
          <<"bench", "_", "oneshot">>, <<"bench", "_", "oneshot", "_", "2">>,
          <<"print", "_", "access", "_", "denied">>,
          <<"print", "_", "api", "_", "speed">>, <<"print", "_", "sysinfo">>,
          <<"generate", "_", "manifest">> }
     |->
        CASE name = <<"build">> -> build
          [] name = <<"wheel">> -> wheel
          [] name = <<"upload", "_", "wheels">> -> upload_wheels
          [] name = <<"install", "_", "pip">> -> install_pip
          [] name = <<"install">> -> install
          [] name = <<"uninstall">> -> uninstall
          [] name = <<"clean">> -> clean
          [] name = <<"install", "_", "pydeps", "_", "test">> -> install_pydeps_test
          [] name = <<"install", "_", "pydeps", "_", "dev">> -> install_pydeps_dev
          [] name = <<"test">> -> test("")
          [] name = <<"test", "_", "parallel">> -> test_parallel
          [] name = <<"coverage">> -> coverage
          [] name = <<"test", "_", "process">> -> test_process
          [] name = <<"test", "_", "process", "_", "all">> -> test_process_all
          [] name = <<"test", "_", "system">> -> test_system
          [] name = <<"test", "_", "platform">> -> test_platform
          [] name = <<"test", "_", "misc">> -> test_misc
          [] name = <<"test", "_", "scripts">> -> test_scripts
          [] name = <<"test", "_", "unicode">> -> test_unicode
          [] name = <<"test", "_", "connections">> -> test_connections
          [] name = <<"test", "_", "contracts">> -> test_contracts
          [] name = <<"test", "_", "testutils">> -> test_testutils
          [] name = <<"test", "_", "sudo">> -> test_sudo
          [] name = <<"test", "_", "last", "_", "failed">> -> test_last_failed
          [] name = <<"test", "_", "memleaks">> -> test_memleaks
          [] name = <<"install", "_", "git", "_", "hooks">> -> install_git_hooks
          [] name = <<"bench", "_", "oneshot">> -> bench_oneshot
          [] name = <<"bench", "_", "oneshot", "_", "2">> -> bench_oneshot_2
          [] name = <<"print", "_", "access", "_", "denied">> -> print_access_denied
          [] name = <<"print", "_", "api", "_", "speed">> -> print_api_speed
          [] name = <<"print", "_", "sysinfo">> -> print_sysinfo
          [] name = <<"generate", "_", "manifest">> -> generate_manifest]

\* Every name getattr finds in the module: the tasks, the one-argument
\* tasks and the helper functions.
ModuleNames ==
    DOMAIN TaskTable \cup
    { <<"test", "_", "by", "_", "name">>, <<"test", "_", "by", "_", "regex">>,
      <<"safe", "_", "print">>, <<"stderr", "_", "handle">>,
      <<"win", "_", "colorprint">>, <<"sh">>, <<"rm">>,
      <<"safe", "_", "remove">>, <<"safe", "_", "rmtree">>,
      <<"recursive", "_", "rm">>, <<"get", "_", "python">>,
      <<"parse", "_", "args">>, <<"main">> }

\* ------------------------------------------------------------- dispatcher
\* The directory the dispatcher is started in (os.getcwd() in uninstall).
Here ==
    "here"

\* parse_args: argparse rejects an unknown subcommand and a stray argument
\* with status 2; no command, or 'help', prints the help and exits with 1.
parse_args(command, arg) ==
    IF command # None /\ command \notin ParserChoices
        THEN [exits |-> TRUE, status |-> 2, reported |-> "usage error"]
    ELSE IF arg # "" /\ command \notin ArgCommands
        THEN [exits |-> TRUE, status |-> 2, reported |-> "usage error"]
    ELSE IF command = None \/ command = <<"help">>
        THEN [exits |-> TRUE, status |-> 1, reported |-> "help"]
    ELSE [exits |-> FALSE, status |-> 0, reported |-> "none"]

\* Faulty variant: the return code of the child is never looked at.
sh_ignore_returncode(returncode) ==
    [exits |-> FALSE, status |-> 0, reported |-> "none"]

\* sh: the child's return code ends the dispatcher unless it is 0.
sh(returncode) ==
    [exits |-> returncode # 0, status |-> returncode, reported |-> "none"]

\* build: the same for the streamed build process.
build_returncode(returncode) ==
    [exits |-> returncode # 0, status |-> returncode, reported |-> "failure"]

\* generate_manifest: subprocess.check_output raises CalledProcessError on
\* a non-zero return code; nothing catches it, so the interpreter prints
\* the traceback and exits with status 1.
check_output(returncode) ==
    [exits |-> returncode # 0, status |-> 1, reported |-> "traceback"]

\* What the step's code does with the return code of its child.
on_returncode(step, returncode) ==
    CASE step.op = "sh" -> sh(returncode)
      [] step.op = "popen" -> build_returncode(returncode)
      [] step.op = "check_output" -> check_output(returncode)

\* The value of PYTHON a child sees: sh passes env=os.environ, the other
\* two calls pass no env and the child inherits the process environment.
child_env(step, environ, inherited) ==
    IF step.op = "sh" THEN environ ELSE inherited

\* 'import psutil' succeeds when the module is cached in sys.modules or a
\* copy is found on sys.path.
import_psutil(cached, n) ==
    cached \/ n > 0

\* Faulty variant: the command name is looked up without replacing '-'.
main_dispatch_no_replace(command, arg) ==
    IF command \notin ModuleNames
        THEN [found |-> FALSE, invoked |-> <<>>, prog |-> <<>>]
    ELSE IF command \in DOMAIN TaskTable
        THEN [found |-> TRUE, invoked |-> <<command>>,
              prog |-> TaskTable[command]]
    ELSE [found |-> FALSE, invoked |-> <<command>>, prog |-> <<>>]

\* The if/elif chain at the end of main: which task functions are called
\* and which steps run.  'found' is FALSE when getattr raises.
main_dispatch(command, arg) ==
    LET fname == str_replace(command, "-", "_")
    IN  IF fname \notin ModuleNames
            THEN [found |-> FALSE, invoked |-> <<>>, prog |-> <<>>]
        ELSE IF command = <<"test">> /\ arg # ""
            THEN [found |-> TRUE, invoked |-> <<>>, prog |-> <<Sh(arg)>>]
        ELSE IF command = <<"test", "-", "by", "-", "name">>
            THEN [found |-> TRUE,
                  invoked |-> << <<"test", "_", "by", "_", "name">> >>,
                  prog |-> test_by_name(arg)]
        ELSE IF command = <<"test", "-", "by", "-", "regex">>
            THEN [found |-> TRUE,
                  invoked |-> << <<"test", "_", "by", "_", "regex">> >>,
                  prog |-> test_by_regex(arg)]
        ELSE IF fname \in DOMAIN TaskTable
            THEN [found |-> TRUE, invoked |-> <<fname>>,
                  prog |-> TaskTable[fname]]
        ELSE [found |-> FALSE, invoked |-> <<fname>>, prog |-> <<>>]

CleanupIdle ==
    /\ WINDOWS = TRUE
    /\ call = [fn |-> "none"]
    /\ fs = <<>>
    /\ fs0 = <<>>
    /\ denied = {}
    /\ phase = "idle"
    /\ todo = <<>>
    /\ pending = <<>>
    /\ tail = <<>>
    /\ events = <<>>
    /\ listed = {}
    /\ external = {}

\* The state once the module is imported (line 25 sets PYTHON).
Loaded ==
    /\ PYTHON = IF env_PYTHON = None THEN sys_executable ELSE env_PYTHON
    /\ os_environ = env_PYTHON
    /\ c_environ = env_PYTHON
    /\ pc = "start"
    /\ prog = <<>>
    /\ ip = 1
    /\ running = {}
    /\ spawned = {}
    /\ failcode = 0
    /\ exitcode = -1
    /\ reported = "none"
    /\ invoked = <<>>
    /\ cwd = Here
    /\ sys_modules = FALSE
    /\ effects = {}

\* An interpreter path given in the environment.
EnvPython ==
    <<"C", ":", "\\", "e", "\\", "p", "y">>

\* An absolute interpreter path given with --python.
AbsPython ==
    <<"C", ":", "\\", "a", "\\", "p", "y">>

Init ==
    /\ argv_command \in ParserChoices \cup
            {None, <<"frobnicate">>, <<"bench", "_", "oneshot">>}
    /\ argv_arg \in {"", "t.py"}
    /\ argv_command = None => argv_arg = ""
    /\ argv_python \in
            {None, AbsPython, <<"3", ".", "1", "1">>, <<"3", ".", "9">>}
    /\ env_PYTHON \in {None, EnvPython}
    /\ isfile \in {{}, {pypath(vers[2])}, KnownPaths}
    /\ copies \in 0..MaxCopies
    /\ Loaded
    /\ CleanupIdle

Exit(status, what) ==
    /\ pc' = "exited"
    /\ exitcode' = status
    /\ reported' = what

ParseArgs ==
    /\ pc = "start"
    /\ LET r == parse_args(argv_command, argv_arg)
       IN  IF r.exits
               THEN Exit(r.status, r.reported)
               ELSE /\ pc' = "parsed"
                    /\ UNCHANGED <<exitcode, reported>>
    /\ UNCHANGED <<argv_command, argv_arg, argv_python, env_PYTHON, isfile,
                   PYTHON, os_environ, c_environ, prog, ip, running, spawned,
                   failcode, invoked, cwd, sys_modules, copies, effects>>
    /\ UNCHANGED cvars

\* main, lines 557-563: sys.exit(<str>) prints the string and exits with 1;
\* os.putenv changes the process environment and leaves os.environ alone.
ResolvePython ==
    /\ pc = "parsed"
    /\ PYTHON' = get_python(argv_python, isfile)
    /\ IF falsy(PYTHON')
           THEN /\ Exit(1, "can't find any python installation")
                /\ UNCHANGED c_environ
           ELSE /\ c_environ' = PYTHON'
                /\ pc' = "resolved"
                /\ UNCHANGED <<exitcode, reported>>
    /\ UNCHANGED <<argv_command, argv_arg, argv_python, env_PYTHON, isfile,
                   os_environ, prog, ip, running, spawned, failcode, invoked,
                   cwd, sys_modules, copies, effects>>
    /\ UNCHANGED cvars

\* main, lines 565-574.
Dispatch ==
    /\ pc = "resolved"
    /\ LET d == main_dispatch(argv_command, argv_arg)
       IN  /\ invoked' = d.invoked
           /\ prog' = d.prog
           /\ IF d.found
                  THEN /\ pc' = "run"
                       /\ UNCHANGED <<exitcode, reported>>
                  ELSE Exit(1, "traceback")
    /\ UNCHANGED <<argv_command, argv_arg, argv_python, env_PYTHON, isfile,
                   PYTHON, os_environ, c_environ, ip, running, spawned,
                   failcode, cwd, sys_modules, copies, effects>>
    /\ UNCHANGED cvars

AtStep(ops) ==
    /\ pc = "run"
    /\ ip \in 1..Len(prog)
    /\ prog[ip].op \in ops

\* subprocess.Popen / check_output start the child.
Spawn ==
    /\ AtStep({"sh", "popen", "check_output"})
    /\ running' = running \cup {ip}
    /\ spawned' = spawned \cup
            {[via |-> prog[ip].op, what |-> prog[ip].what, exe |-> PYTHON,
              env_PYTHON |-> child_env(prog[ip], os_environ, c_environ)]}
    /\ pc' = "wait"
    /\ UNCHANGED <<argv_command, argv_arg, argv_python, env_PYTHON, isfile,
                   PYTHON, os_environ, c_environ, prog, ip, failcode,
                   exitcode, reported, invoked, cwd, sys_modules, copies,
                   effects>>
    /\ UNCHANGED cvars

\* communicate() returns: the child has exited with some return code and
\* the code after the call runs up to the next blocking call.  A sys.exit
\* inside uninstall's try block runs its finally clause (os.chdir(here)).
ChildExit ==
    /\ pc = "wait"
    /\ \E returncode \in 0..MaxCode :
        LET step == prog[ip]
            r == on_returncode(step, returncode)
        IN  /\ running' = running \ {ip}
            /\ failcode' = IF failcode = 0 THEN returncode ELSE failcode
            /\ copies' = IF step.what = "-m pip uninstall -y psutil"
                            /\ returncode = 0
                         THEN Max(copies - 1, 0) ELSE copies
            /\ IF r.exits
                   THEN /\ Exit(r.status, r.reported)
                        /\ cwd' = IF step.try = "uninstall" THEN Here ELSE cwd
                        /\ UNCHANGED ip
                   ELSE /\ pc' = "run"
                        /\ ip' = ip + step.jump
                        /\ UNCHANGED <<exitcode, reported, cwd>>
    /\ UNCHANGED <<argv_command, argv_arg, argv_python, env_PYTHON, isfile,
                   PYTHON, os_environ, c_environ, prog, spawned, invoked,
                   sys_modules, effects>>
    /\ UNCHANGED cvars

\* A step of a task that spawns nothing.
Effect ==
    /\ AtStep({"effect"})
    /\ effects' = effects \cup {prog[ip].what}
    /\ cwd' = CASE prog[ip].what = "chdir C:\\" -> "C:\\"
                [] prog[ip].what = "chdir here" -> Here
                [] OTHER -> cwd
    /\ ip' = ip + prog[ip].jump
    /\ UNCHANGED <<argv_command, argv_arg, argv_python, env_PYTHON, isfile,
                   PYTHON, os_environ, c_environ, pc, prog, running, spawned,
                   failcode, exitcode, reported, invoked, sys_modules,
                   copies>>
    /\ UNCHANGED cvars

\* uninstall, lines 238-243: ImportError leaves the loop.
ImportCheck ==
    /\ AtStep({"import"})
    /\ IF import_psutil(sys_modules, copies)
           THEN /\ sys_modules' = TRUE
                /\ ip' = ip + 1
           ELSE /\ ip' = ip + 2
                /\ UNCHANGED sys_modules
    /\ UNCHANGED <<argv_command, argv_arg, argv_python, env_PYTHON, isfile,
                   PYTHON, os_environ, c_environ, pc, prog, running, spawned,
                   failcode, exitcode, reported, invoked, cwd, copies,
                   effects>>
    /\ UNCHANGED cvars

\* main returns: the interpreter exits with status 0.
Finish ==
    /\ pc = "run"
    /\ ip = Len(prog) + 1
    /\ Exit(0, "none")
    /\ UNCHANGED <<argv_command, argv_arg, argv_python, env_PYTHON, isfile,
                   PYTHON, os_environ, c_environ, prog, ip, running, spawned,
                   failcode, invoked, cwd, sys_modules, copies, effects>>
    /\ UNCHANGED cvars

Next ==
    \/ ParseArgs
    \/ ResolvePython
    \/ Dispatch
    \/ Spawn
    \/ ChildExit
    \/ Effect
    \/ ImportCheck
    \/ Finish

Spec ==
    Init /\ [][Next]_vars

\* The interpreter runs the dispatcher to its end: a step that can be taken
\* is taken.
FairSpec ==
    Spec /\ WF_vars(Next)

\* ----------------------------------------------- interpreter resolution
\* The characters --python arguments are built from.
Alphabet ==
    {"3", "1", "0", ".", "C", ":", "\\"}

InitPy ==
    /\ argv_command = <<"install", "-", "pip">>
    /\ argv_arg = ""
    /\ argv_python \in {None} \cup SeqsUpTo(Alphabet, MaxLen)
    /\ env_PYTHON = None
    /\ isfile \in SUBSET KnownPaths
    /\ copies = 0
    /\ Loaded
    /\ CleanupIdle

NextPy ==
    \/ ParseArgs
    \/ ResolvePython
    \/ Dispatch
    \/ Spawn
    \/ ChildExit
    \/ Finish

SpecPy ==
    InitPy /\ [][NextPy]_vars

\* ---------------------------------------------------------------- cleanup
\* A path is a tuple of file names, a file name a tuple of tokens cut at
\* the places the patterns look at.  p is q or a directory above q.
IsPrefix(p, q) ==
    /\ Len(p) <= Len(q)
    /\ \A i \in 1..Len(p) : p[i] = q[i]

\* The entries a tree can hold, parents before children, in the order
\* os.scandir lists them.
NodeSeq ==
    << [path |-> << <<"a", ".pyc">> >>, kind |-> "file"],
       [path |-> << <<"keep", ".txt">> >>, kind |-> "file"],
       [path |-> << <<".git">> >>, kind |-> "dir"],
       [path |-> << <<".git">>, <<"x", ".pyc">> >>, kind |-> "file"],
       [path |-> << <<".git">>, <<"hooks">> >>, kind |-> "dir"],
       [path |-> << <<".git">>, <<"hooks">>, <<"y", ".pyc">> >>,
        kind |-> "file"],
       [path |-> << <<"build">> >>, kind |-> "dir"],
       [path |-> << <<"build">>, <<"lib", ".txt">> >>, kind |-> "file"],
       [path |-> << <<"pkg">> >>, kind |-> "dir"],
       [path |-> << <<"pkg">>, <<"b", ".pyc">> >>, kind |-> "file"],
       [path |-> << <<"pkg">>, <<"mod", ".py">> >>, kind |-> "file"],
       [path |-> << <<"pkg">>, <<"__pycache__">> >>, kind |-> "dir"],
       [path |-> << <<"pkg">>, <<"__pycache__">>, <<"c", ".pyc">> >>,
        kind |-> "file"] >>

Nodes ==
    {NodeSeq[i].path : i \in 1..Len(NodeSeq)}

\* The entries whose removal the system may refuse.
Deniable ==
    { << <<"a", ".pyc">> >>,
      << <<"pkg">>, <<"b", ".pyc">> >>,
      << <<"pkg">>, <<"__pycache__">> >>,
      << <<"pkg">>, <<"__pycache__">>, <<"c", ".pyc">> >>,
      << <<"build">>, <<"lib", ".txt">> >> }

\* os.path.isdir / isfile / lexists on a tree; '.' is a directory.
Kind(tree, path) ==
    IF path = <<>> THEN "dir"
    ELSE IF path \in DOMAIN tree THEN tree[path]
    ELSE "none"

\* The tree holding exactly the entries in 'present'.
TreeOf(present) ==
    [q \in Nodes |->
        IF q \in present
            THEN (CHOOSE n \in Range(NodeSeq) : n.path = q).kind
            ELSE "none"]

\* Every tree over Nodes: an entry is present only inside a present
\* directory.
Trees ==
    {TreeOf(present) : present \in
        {P \in SUBSET Nodes :
            \A q \in P : Len(q) > 1 => SubSeq(q, 1, Len(q) - 1) \in P}}

\* The names os.scandir lists in directory 'top', of the given kind.
scandir(tree, top, kind) ==
    LET here(n) == /\ Len(n.path) = Len(top) + 1
                   /\ IsPrefix(top, n.path)
                   /\ tree[n.path] = kind
        found == SelectSeq(NodeSeq, here)
    IN  [i \in 1..Len(found) |-> found[i].path[Len(top) + 1]]

\* fnmatch.fnmatch: '*' matches any run of tokens, anything else itself.
RECURSIVE fnmatch(_, _)
fnmatch(name, pat) ==
    IF pat = <<>> THEN name = <<>>
    ELSE IF Head(pat) = "*"
        THEN \E k \in 0..Len(name) :
                fnmatch(SubSeq(name, k + 1, Len(name)), Tail(pat))
    ELSE /\ name # <<>>
         /\ Head(name) = Head(pat)
         /\ fnmatch(Tail(name), Tail(pat))

\* 'for pattern in patterns: if fnmatch(name, pattern)': one hit for each
\* pattern the name matches.
RECURSIVE per_pattern(_, _)
per_pattern(name, patterns) ==
    IF patterns = <<>> THEN <<>>
    ELSE (IF fnmatch(name, Head(patterns)) THEN <<name>> ELSE <<>>)
         \o per_pattern(name, Tail(patterns))

RECURSIVE per_name(_, _)
per_name(names, patterns) ==
    IF names = <<>> THEN <<>>
    ELSE per_pattern(Head(names), patterns) \o per_name(Tail(names), patterns)

\* os.path.normpath(root).startswith('.git/'): normpath joins with the
\* platform's separator, so on Windows no root starts with '.git/', and
\* elsewhere the roots below .git do, but '.git' itself does not.
root_startswith_git(top, windows) ==
    ~windows /\ Len(top) >= 2 /\ top[1] = <<".git">>

\* A directory entry can be removed when nothing refuses it and, for a
\* directory, everything in it can be removed.
RECURSIVE Removable(_, _, _)
Removable(tree, den, path) ==
    /\ path \notin den
    /\ \A q \in Nodes :
        (Len(q) = Len(path) + 1 /\ IsPrefix(path, q) /\ tree[q] # "none")
            => Removable(tree, den, q)

\* Faulty variant: FileNotFoundError and PermissionError are not caught.
safe_remove_nocatch(tree, den, windows, path) ==
    CASE Kind(tree, path) = "file" /\ path \notin den ->
            [fs |-> [tree EXCEPT ![path] = "none"], outcome |-> "removed"]
      [] OTHER -> [fs |-> tree, outcome |-> "raised"]

\* safe_remove: os.remove of a missing path raises FileNotFoundError
\* (passed over), of a refused file PermissionError (printed).  os.remove
\* of a directory raises PermissionError on Windows and IsADirectoryError
\* elsewhere, which nothing catches.
safe_remove(tree, den, windows, path) ==
    CASE Kind(tree, path) = "none" ->
            [fs |-> tree, outcome |-> "missing"]
      [] Kind(tree, path) = "file" /\ path \in den ->
            [fs |-> tree, outcome |-> "denied"]
      [] Kind(tree, path) = "file" /\ path \notin den ->
            [fs |-> [tree EXCEPT ![path] = "none"], outcome |-> "removed"]
      [] Kind(tree, path) = "dir" /\ windows ->
            [fs |-> tree, outcome |-> "denied"]
      [] Kind(tree, path) = "dir" /\ ~windows ->
            [fs |-> tree, outcome |-> "raised"]

\* Faulty variant: no onerror handler, the first failure is raised.
safe_rmtree_noonerror(tree, den, windows, path) ==
    IF Kind(tree, path) = "dir" /\ Removable(tree, den, path)
        THEN [fs |-> [q \in Nodes |->
                        IF IsPrefix(path, q) THEN "none" ELSE tree[q]],
              outcome |-> "removed"]
        ELSE [fs |-> tree, outcome |-> "raised"]

\* safe_rmtree: shutil.rmtree hands every failure to onerror, which prints
\* all but FileNotFoundError, and goes on: below 'path' everything that can
\* be removed is removed.
safe_rmtree(tree, den, windows, path) ==
    CASE Kind(tree, path) = "none" ->
            [fs |-> tree, outcome |-> "missing"]
      [] Kind(tree, path) = "file" ->
            [fs |-> tree, outcome |-> "not a directory"]
      [] Kind(tree, path) = "dir" ->
            LET after == [q \in Nodes |->
                            IF IsPrefix(path, q) /\ tree[q] # "none"
                               /\ Removable(tree, den, q)
                            THEN "none" ELSE tree[q]]
            IN  [fs |-> after,
                 outcome |-> IF Kind(after, path) = "none"
                             THEN "removed" ELSE "denied"]

\* The patterns clean passes to recursive_rm.
clean_patterns ==
    << <<"$testfn", "*">>, <<"*", ".bak">>, <<"*", ".core">>,
       <<"*", ".egg-info">>, <<"*", ".orig">>, <<"*", ".pyc">>,
       <<"*", ".pyd">>, <<"*", ".pyo">>, <<"*", ".rej">>, <<"*", ".so">>,
       <<"*", ".~">>, <<"*", "__pycache__">>, <<".coverage">>,
       <<".failed-tests", ".txt">>, <<"pytest-cache-files", "*">> >>

\* The directories clean removes after the walk.
clean_dirs ==
    << << <<"build">> >>, << <<".coverage">> >>, << <<"dist">> >>,
       << <<"docs">>, <<"_build">> >>, << <<"htmlcov">> >>,
       << <<"tmp">> >> >>

\* "*" in pattern, for a pattern given as a path.
has_star(pattern) ==
    \E i \in 1..Len(pattern) : "*" \in Range(pattern[i])

\* The removals one directory of the walk gives rise to: the body of the
\* os.walk loop of recursive_rm (clean) and of rm.
walk_body(c, top, dirs, files) ==
    LET join(names, how) ==
            [i \in 1..Len(names) |->
                [path |-> Append(top, names[i]), how |-> how]]
    IN  IF c.fn = "clean"
            THEN join(per_name(files, clean_patterns), "remove") \o
                 join(per_name(dirs, clean_patterns), "rmtree")
        ELSE IF Len(c.pattern) # 1
            THEN <<>>
        ELSE IF c.directory
            THEN join(per_name(dirs, <<c.pattern[1]>>), "rmtree")
        ELSE join(per_name(files, <<c.pattern[1]>>), "remove")

\* One removal, by the helper the code calls for it.
remove(tree, den, windows, target) ==
    IF target.how = "rmtree"
        THEN safe_rmtree(tree, den, windows, target.path)
        ELSE safe_remove(tree, den, windows, target.path)

\* Whether the system answers the removal with a permission error: the
\* file is refused, os.remove is given a directory on Windows, or rmtree
\* meets a refused entry in the directory.
permission_error(tree, den, windows, target) ==
    IF target.how = "remove"
        THEN \/ Kind(tree, target.path) = "file" /\ target.path \in den
             \/ Kind(tree, target.path) = "dir" /\ windows
        ELSE /\ Kind(tree, target.path) = "dir"
             /\ \E q \in den : IsPrefix(target.path, q) /\ tree[q] # "none"

\* The cleanup calls analysed.
Calls ==
    {[fn |-> "clean"]} \cup
    {[fn |-> "rm", pattern |-> pat, directory |-> d] :
        pat \in { << <<"*", ".pyc">> >>,
                  << <<"*", "__pycache__">> >>,
                  << <<"build">> >>,
                  << <<"a", ".pyc">> >> },
        d \in BOOLEAN}

DispatcherIdle ==
    /\ argv_command = <<"clean">>
    /\ argv_arg = ""
    /\ argv_python = None
    /\ env_PYTHON = None
    /\ isfile = {}
    /\ copies = 0
    /\ Loaded

InitClean ==
    /\ DispatcherIdle
    /\ WINDOWS \in BOOLEAN
    /\ call \in Calls
    /\ fs \in Trees
    /\ fs0 = fs
    /\ denied \in {d \in SUBSET Deniable :
                      /\ Cardinality(d) <= MaxDenied
                      /\ \A q \in d : fs[q] # "none"}
    /\ phase = "start"
    /\ todo = <<>>
    /\ pending = <<>>
    /\ tail = <<>>
    /\ events = <<>>
    /\ listed = {}
    /\ external = {}

\* The call is entered: rm without '*' goes straight to one removal, the
\* others start os.walk('.').
Enter ==
    /\ phase = "start"
    /\ phase' = "walk"
    /\ IF call.fn = "rm" /\ ~has_star(call.pattern)
           THEN /\ pending' = << [path |-> call.pattern,
                                  how |-> IF call.directory
                                          THEN "rmtree" ELSE "remove"] >>
                /\ listed' = Range(pending')
                /\ todo' = <<>>
           ELSE /\ todo' = << <<>> >>
                /\ UNCHANGED <<pending, listed>>
    /\ tail' = IF call.fn = "clean" THEN clean_dirs ELSE <<>>
    /\ UNCHANGED <<WINDOWS, call, fs, fs0, denied, events, external>>
    /\ UNCHANGED dvars

\* os.walk yields the next directory: it is listed, its subdirectories are
\* queued, and the loop body selects what to remove unless the root is
\* skipped.  A directory that is gone by now is passed over.
Visit ==
    /\ phase = "walk"
    /\ pending = <<>>
    /\ todo # <<>>
    /\ LET top == Head(todo)
           dirs == scandir(fs, top, "dir")
           files == scandir(fs, top, "file")
       IN  IF Kind(fs, top) # "dir"
               THEN /\ todo' = Tail(todo)
                    /\ UNCHANGED <<pending, listed>>
               ELSE /\ todo' = [i \in 1..Len(dirs) |-> Append(top, dirs[i])]
                               \o Tail(todo)
                    /\ pending' = IF root_startswith_git(top, WINDOWS)
                                  THEN <<>>
                                  ELSE walk_body(call, top, dirs, files)
                    /\ listed' = listed \cup Range(pending')
    /\ UNCHANGED <<WINDOWS, call, fs, fs0, denied, phase, tail, events,
                   external>>
    /\ UNCHANGED dvars

\* The next removal of the loop body; an exception nothing catches ends
\* the cleanup.
Remove ==
    /\ phase = "walk"
    /\ pending # <<>>
    /\ LET r == remove(fs, denied, WINDOWS, Head(pending))
       IN  /\ fs' = r.fs
           /\ events' = Append(events,
                    [path |-> Head(pending).path, how |-> Head(pending).how,
                     outcome |-> r.outcome,
                     refused |-> permission_error(fs, denied, WINDOWS,
                                                  Head(pending))])
           /\ phase' = IF r.outcome = "raised" THEN "crashed" ELSE phase
    /\ pending' = Tail(pending)
    /\ UNCHANGED <<WINDOWS, call, fs0, denied, todo, tail, listed, external>>
    /\ UNCHANGED dvars

\* clean, after the walk: the next safe_rmtree of its fixed list.
CleanDir ==
    /\ phase = "walk"
    /\ pending = <<>>
    /\ todo = <<>>
    /\ tail # <<>>
    /\ LET target == [path |-> Head(tail), how |-> "rmtree"]
           r == remove(fs, denied, WINDOWS, target)
       IN  /\ fs' = r.fs
           /\ events' = Append(events,
                    [path |-> target.path, how |-> target.how,
                     outcome |-> r.outcome,
                     refused |-> permission_error(fs, denied, WINDOWS,
                                                  target)])
           /\ phase' = IF r.outcome = "raised" THEN "crashed" ELSE phase
           /\ listed' = listed \cup {target}
    /\ tail' = Tail(tail)
    /\ UNCHANGED <<WINDOWS, call, fs0, denied, todo, pending, external>>
    /\ UNCHANGED dvars

\* The call returns.
Return ==
    /\ phase = "walk"
    /\ pending = <<>>
    /\ todo = <<>>
    /\ tail = <<>>
    /\ phase' = "done"
    /\ UNCHANGED <<WINDOWS, call, fs, fs0, denied, todo, pending, tail,
                   events, listed, external>>
    /\ UNCHANGED dvars

\* Another process deletes an entry that is listed for removal and not
\* yet removed.
ExternalRemove ==
    /\ phase = "walk"
    /\ Cardinality(external) < MaxExternal
    /\ \E i \in 1..Len(pending) :
        LET path == pending[i].path
        IN  /\ Kind(fs, path) # "none"
            /\ fs' = [q \in Nodes |->
                        IF IsPrefix(path, q) THEN "none" ELSE fs[q]]
            /\ external' = external \cup {path}
    /\ UNCHANGED <<WINDOWS, call, fs0, denied, phase, todo, pending, tail,
                   events, listed>>
    /\ UNCHANGED dvars

NextClean ==
    \/ Enter
    \/ Visit
    \/ Remove
    \/ CleanDir
    \/ Return
    \/ ExternalRemove

SpecClean ==
    InitClean /\ [][NextClean]_vars

\* ------------------------------------------------- dispatcher properties
\* main has got past get_python and getattr.
Dispatched ==
    /\ pc \in {"run", "wait", "exited"}
    /\ reported \notin
        {"usage error", "help", "can't find any python installation"}

\* C1: whenever a child was the first to return a code N # 0, the
\* dispatcher's own exit status is N.
C1_ExitCodeIsFirstFailure ==
    (pc = "exited" /\ failcode # 0) => exitcode = failcode

\* C2: children run one at a time, and from the moment one has returned a
\* non-zero code nothing more happens: no child is spawned, no step of the
\* task or of its caller runs, the dispatcher has exited.
C2_AbortOnFirstFailure ==
    /\ [](Cardinality(running) <= 1)
    /\ [](failcode # 0 => pc = "exited" /\ running = {})
    /\ [][failcode # 0 => UNCHANGED <<spawned, effects, ip, running>>]_vars

\* A build child failed in a task with steps left after build: the steps
\* that follow were not run.
C2_Witness ==
    /\ argv_command = <<"coverage">>
    /\ pc = "exited"
    /\ failcode = 2
    /\ exitcode = 2
    /\ ip = 2
    /\ Cardinality(spawned) = 2

\* C3: get_python returns sys.executable for no argument, the argument
\* itself when it is absolute, and for a shorthand an existing table entry
\* that contains it; when there is none the dispatcher reports it and exits
\* non-zero before any task runs.
C3_InterpreterResolution ==
    pc \notin {"start", "parsed"} =>
        IF falsy(argv_python) THEN PYTHON = sys_executable
        ELSE IF isabs(argv_python) THEN PYTHON = argv_python
        ELSE LET short == str_remove(argv_python, ".")
                 found == {p \in KnownPaths :
                              p \in isfile /\ str_contains(p, short)}
             IN  IF found = {}
                     THEN /\ pc = "exited"
                          /\ exitcode > 0
                          /\ reported = "can't find any python installation"
                          /\ invoked = <<>>
                          /\ spawned = {}
                          /\ effects = {}
                     ELSE PYTHON \in found

\* The shorthand 3.11 resolved to the 3.11 installation and the task ran.
C3_Witness ==
    /\ argv_python = <<"3", ".", "1", "1">>
    /\ PYTHON = pypath(vers[2])
    /\ pc = "exited"
    /\ exitcode = 0

\* C4: every child sees PYTHON set to the resolved interpreter path.
C4_ChildrenSeeResolvedPython ==
    \A c \in spawned : c.env_PYTHON = PYTHON

\* C5: with PYTHON set in the calling environment and no --python, every
\* child is run with the interpreter the environment names.
C5_EnvironmentOverrideUsed ==
    (env_PYTHON # None /\ argv_python = None) =>
        \A c \in spawned : c.exe = env_PYTHON

\* C8 as stated: every accepted command other than help has its name
\* resolved to one existing function and main calls exactly that function
\* once; a name the parser does not know never reaches the dispatch.
C8_ExactlyOneTask ==
    /\ argv_command \notin ParserChoices => (invoked = <<>> /\ prog = <<>>)
    /\ Dispatched =>
        LET fname == str_replace(argv_command, "-", "_")
        IN  /\ fname \in ModuleNames
            /\ invoked = <<fname>>

\* C8 amended: as C8, except that 'test' with a non-empty argument calls
\* no task function: main runs the given script through sh instead.
C8_ExactlyOneTaskOrScript ==
    /\ argv_command \notin ParserChoices => (invoked = <<>> /\ prog = <<>>)
    /\ Dispatched =>
        LET fname == str_replace(argv_command, "-", "_")
        IN  /\ fname \in ModuleNames
            /\ IF argv_command = <<"test">> /\ argv_arg # ""
                   THEN invoked = <<>> /\ prog = <<Sh(argv_arg)>>
                   ELSE invoked = <<fname>> /\ prog # <<>>

\* A hyphenated command was dispatched to its one task, which ran to its
\* end.
C8_Witness ==
    /\ argv_command = <<"install", "-", "pydeps", "-", "dev">>
    /\ invoked = << <<"install", "_", "pydeps", "_", "dev">> >>
    /\ pc = "exited"
    /\ exitcode = 0

\* C10: uninstall terminates: unless a child fails, the import loop ends,
\* the working directory is restored and the site-packages cleanup runs.
C10_UninstallTerminates ==
    (argv_command = <<"uninstall">> /\ pc = "run") ~>
        /\ pc = "exited"
        /\ failcode = 0 =>
            (cwd = Here /\ "site-packages cleanup" \in effects)

\* ---------------------------------------------------- cleanup properties
InGit(path) ==
    path[1] = <<".git">>

\* The entry is one the call is to remove: its name matches a pattern (for
\* rm, and it is of the kind asked for), or clean names it.
Selected(c, path) ==
    LET name == path[Len(path)]
    IN  IF c.fn = "clean"
            THEN \/ \E i \in 1..Len(clean_patterns) :
                        fnmatch(name, clean_patterns[i])
                 \/ path \in Range(clean_dirs)
        ELSE /\ Len(c.pattern) = 1
             /\ fnmatch(name, c.pattern[1])
             /\ fs0[path] = IF c.directory THEN "dir" ELSE "file"

\* The entry or a directory above it is selected.
Covered(c, path) ==
    \E k \in 1..Len(path) : Selected(c, SubSeq(path, 1, k))

\* C6: after a wildcard cleanup that nothing disturbs, every selected
\* entry outside .git is gone, and nothing inside .git and nothing that is
\* neither selected nor inside a selected directory has been removed.
C6_RemovesAllAndOnlyMatches ==
    ( /\ phase = "done"
      /\ call.fn = "clean" \/ has_star(call.pattern)
      /\ denied = {}
      /\ external = {} ) =>
        \A q \in Nodes :
            fs0[q] # "none" =>
                /\ (Selected(call, q) /\ ~InGit(q)) => fs[q] = "none"
                /\ (InGit(q) \/ ~Covered(call, q)) => fs[q] = fs0[q]

\* C7: a removal whose path does not exist (any more) changes nothing and
\* raises nothing: the cleanup goes on.
C7_MissingPathIsNoOp ==
    [][ ( /\ phase = "walk"
          /\ \/ /\ pending # <<>>
                /\ pending' = Tail(pending)
                /\ Kind(fs, Head(pending).path) = "none"
             \/ /\ pending = <<>>
                /\ tail # <<>>
                /\ tail' = Tail(tail)
                /\ Kind(fs, Head(tail)) = "none" )
        => (fs' = fs /\ phase' = "walk") ]_vars

\* A listed entry was deleted by another process before its removal, the
\* removal found it missing, and the cleanup ran to its end.
C7_Witness ==
    /\ phase = "done"
    /\ \E i \in 1..Len(events) :
        /\ events[i].outcome = "missing"
        /\ events[i].path \in external

\* The removal the code chose for the target is one the system permits.
Permitted(target) ==
    IF target.how = "remove"
        THEN Kind(fs0, target.path) = "file" /\ target.path \notin denied
        ELSE /\ Kind(fs0, target.path) = "dir"
             /\ \A q \in denied : ~IsPrefix(target.path, q)

\* C9: a permission failure is reported and not raised, and when the
\* cleanup returns every target it selected has been attempted and is gone
\* if its removal is permitted.
C9_PermissionFailureIgnored ==
    /\ \A i \in 1..Len(events) :
        events[i].refused => events[i].outcome = "denied"
    /\ (\E i \in 1..Len(events) : events[i].refused) => phase # "crashed"
    /\ phase = "done" =>
        \A t \in listed :
            /\ \E i \in 1..Len(events) :
                events[i].path = t.path /\ events[i].how = t.how
            /\ Permitted(t) => Kind(fs, t.path) = "none"

\* A removal was refused, a later target of the same cleanup was removed,
\* and the cleanup returned.
C9_Witness ==
    /\ phase = "done"
    /\ \E i, j \in 1..Len(events) :
        /\ i < j
        /\ events[i].refused
        /\ events[j].outcome = "removed"

====
